---- MODULE Spec2Model ----
(***************************************************************************)
(* Model of the SpyMap lead-collection pipeline: maps_scraper.collect_leads *)
(* as called by main.execute_scraping.  The provider (nearby search, place  *)
(* details) and the scraped web sites are the environment: each response is *)
(* drawn from a small set at the step that receives it.                     *)
(***************************************************************************)
EXTENDS Integers, Sequences, FiniteSets, TLC

(* ------------------------------ bounds --------------------------------- *)
\* number of distinct provider identifiers (place_id) the provider can return
NumPids == 2
\* longest keyword list of a job request
MaxKeywords == 2
\* most pages the provider serves for one keyword (token chain length)
MaxPages == 2
\* most results on one search page
MaxResults == 2

Pids == 1..NumPids

(* --------------------------- value domains ----------------------------- *)
NoToken == "NO_TOKEN"
NoStatus == "NO_STATUS"
NoValue == "NO_VALUE"
NoMessage == "NO_MESSAGE"

\* statuses of a nearby-search response that are neither OK nor ZERO_RESULTS
BadStatuses == {"REQUEST_DENIED", "OVER_QUERY_LIMIT"}
\* statuses of a place-details response other than OK
DetailBadStatuses == {"NOT_FOUND"}
\* error_message of a search response: absent or a provider text
Messages == {NoMessage, "The provided API key is invalid."}

\* what a place has on the web: <<website of the details result, what a
\* harvest of that website yields>>
Site == "http://shop.example"
SiteKinds == <<(<<"", "">>), (<<Site, "">>), (<<Site, "sales@example.com">>)>>

\* the "rating" member of a details result: absent, JSON null, a string that
\* float() cannot parse, or a number (held in tenths: 30 is 3.0)
RatingKinds ==
    << [t |-> "missing", v |-> 0], [t |-> "null", v |-> 0], [t |-> "str", v |-> 0],
       [t |-> "num", v |-> 30], [t |-> "num", v |-> 50] >>
RatingValues == {RatingKinds[i] : i \in 1..Len(RatingKinds)}

\* the provider's data about one place; the Len(SiteKinds) * Len(RatingKinds)
\* variants are numbered so that every pair <<site kind, rating kind>> has
\* one number (the two lengths are coprime)
NumVariants == Len(SiteKinds) * Len(RatingKinds)
Variant(i) ==
    LET sk == SiteKinds[(i % Len(SiteKinds)) + 1] IN
    [website |-> sk[1], site_email |-> sk[2], rating |-> RatingKinds[(i % Len(RatingKinds)) + 1]]

\* the provider catalogues explored: place p has variant w + p - 1, so each
\* place takes every variant and two places never share one
Catalogues ==
    {[p \in Pids |-> Variant((w + p - 1) % NumVariants)] : w \in 0..(NumVariants - 1)}

WebsiteFilters == {"no_filter", "with", "without"}
EmailFilters == {"no_filter", "with", "without"}
RatingFilters == {"no_filter", "1", "2", "3", "4", "5"}
FilterKeys == {"website", "email", "rating"}

\* variant: the default of a missing key is "with"
FilterGet_defaultWith(f, k) == IF k \in DOMAIN f THEN f[k] ELSE "with"

\* dict.get(key, "no_filter") on the filter specification
FilterGet(f, k) == IF k \in DOMAIN f THEN f[k] ELSE "no_filter"

\* a filter specification as the bot builds it (all three keys), or the empty
\* dict that collect_leads substitutes for filters=None
FilterSpecs ==
    {[k \in FilterKeys |-> CASE k = "website" -> w [] k = "email" -> e [] OTHER -> r] :
        w \in WebsiteFilters, e \in EmailFilters, r \in RatingFilters}
    \cup {[k \in {} |-> "no_filter"]}

\* the dict collect_leads uses when filters is None
NoFilters == [k \in {} |-> "no_filter"]

\* the filter specifications of the runs that explore several keywords
PipelineFilterSpecs ==
    {f \in FilterSpecs : /\ FilterGet(f, "website") \in {"no_filter", "with"}
                         /\ FilterGet(f, "email") = "no_filter"
                         /\ FilterGet(f, "rating") \in {"no_filter", "3"}}

VARIABLES
    center,     \* collect_leads argument
    radius,     \* collect_leads argument
    keywords,   \* collect_leads argument: sequence of keywords
    filters,    \* collect_leads argument after the None default
    places,     \* the provider's catalogue: place_id -> data about the place
    kwIdx,      \* position of the for-loop over keywords (1-based)
    page,       \* the url the while-loop fetches next
    pageNo,     \* pages fetched so far for the current keyword
    status,     \* status of the last search response; "EXCEPTION" when
                \* fetch_json raised instead of returning one
    anyOK,      \* whether some search response so far had status OK
    data,       \* the OK search response being processed
    idx,        \* position of the for-loop over data.results (1-based)
    seen,       \* set of place_ids
    leads,      \* list of lead records
    detStatus,  \* per place_id, the status of the details response received
    detFetches, \* per place_id, the number of details requests issued
    harvests,   \* per place_id, the number of email harvests run
    pc,         \* "search", "results", "done" or "failed"
    error,      \* the exception collect_leads raised
    returned,   \* what the caller received from collect_leads
    lastOp,     \* the last request or sleep issued
    leadsAll,   \* the lead list the same run builds when filters is omitted
    \* execute_scraping
    location,   \* user_data["location"], a sequence of characters
    jobPc,      \* "start", "resolve", "collect", "send" or "end"
    geoStatus,  \* status of the geocode response, "EXCEPTION" when the
                \* request raised
    geoResults, \* the results list of the geocode response
    geoRequests,\* number of geocode requests issued
    messages,   \* the kinds of the messages sent to the chat, in order
    files,      \* the export files that exist on disk
    written,    \* every export file the job has written
    \* scrape_site_emails
    hUrl,       \* the argument url
    hWeb,       \* the web: target -> what fetching and parsing it gives
    hTarget,    \* position of the for-loop over the two targets (1-based)
    hFound,     \* the set found
    hFetched,   \* the targets requested, in order
    hParts,     \* the sorted list that is joined
    hResult,    \* the string returned
    hPc,        \* "fetch", "returned" or "raised"
    \* two calls of collect_leads
    jScript,    \* per call, the place_ids its result pages hold, in order
    jPc,        \* per call, "idle", "running" or "returned"
    jIdx,       \* per call, the position in its results (1-based)
    jSeen,      \* per call, its local set seen
    jLeads,     \* per call, its local list leads
    \* the bot conversation of one chat and the payment webhooks
    ud,         \* context.user_data of the chat: a dict (key -> value)
    shown,      \* the inline keyboards the bot has put on display
    sessions,   \* number of Stripe checkout sessions created for the chat
    paid,       \* the checkout sessions that were paid
    deliveries, \* per session, the checkout.session.completed events received
    lastHook,   \* the last request to /stripe or /paypal-webhook
    jobs,       \* the execute_scraping calls scheduled, in order
    \* setup_application called from several threads
    sPc,        \* per thread: "out", "wait" (at the with), "check", "result"
    sCoro,      \* per thread, the setup_bot coroutine whose future it holds
    bot_init_lock,   \* the thread that holds the lock, 0 when it is free
    bot_initialized, \* the global flag
    ptb_app,    \* the application the global names (index in apps), 0 for None
    apps,       \* every Application built: "built", "initialized", "started"
    coros,      \* every setup_bot coroutine: the await it is at, or its end
    thread_starts,   \* number of calls of async_thread.start()
    calls,      \* number of calls of setup_application so far
    envOK       \* the required environment variables are set

jobVars == <<location, jobPc, geoStatus, geoResults, geoRequests, messages, files, written>>
hVars == <<hUrl, hWeb, hTarget, hFound, hFetched, hParts, hResult, hPc>>
pipeVars == <<center, radius, keywords, filters, places, kwIdx, page, pageNo, status,
              anyOK, data, idx, seen, leads, detStatus, detFetches, harvests, pc,
              error, returned, lastOp, leadsAll>>

\* two calls of collect_leads running side by side
pairVars == <<jScript, jPc, jIdx, jSeen, jLeads>>
\* the bot conversation and the webhooks
botVars == <<ud, shown, sessions, paid, deliveries, lastHook, jobs>>
setupVars == <<sPc, sCoro, bot_init_lock, bot_initialized, ptb_app, apps, coros,
               thread_starts, calls, envOK>>
otherVars == <<pairVars, botVars, setupVars>>

vars == <<pipeVars, jobVars, hVars, otherVars>>

(* ------------------------- pure helper functions ----------------------- *)
NoPage == {}

\* a url is modelled by its query parameters, a set of <<name, value>> pairs
\* (the api key, the same in every request, is left out)
url_nearby(c, r, keyword, token) ==
    IF token # NoToken
      THEN {<<"pagetoken", token>>}
      ELSE {<<"location", c>>, <<"radius", ToString(r)>>, <<"keyword", keyword>>}

url_details(place_id) == {<<"place_id", ToString(place_id)>>}

\* r.get("rating", 0.0): an absent rating becomes the number 0.0
RatingGet(raw) == IF raw.t = "missing" THEN [t |-> "num", v |-> 0] ELSE raw

\* float(rating_filter), in tenths; ok = FALSE stands for ValueError
FloatOfFilter(s) ==
    CASE s = "1" -> [ok |-> TRUE, v |-> 10]
      [] s = "2" -> [ok |-> TRUE, v |-> 20]
      [] s = "3" -> [ok |-> TRUE, v |-> 30]
      [] s = "4" -> [ok |-> TRUE, v |-> 40]
      [] s = "5" -> [ok |-> TRUE, v |-> 50]
      [] OTHER -> [ok |-> FALSE, v |-> 0]

\* float(rating), in tenths; ok = FALSE stands for TypeError (None) or
\* ValueError (a string that is not a number)
FloatOfRating(rating) ==
    IF rating.t = "num" THEN [ok |-> TRUE, v |-> rating.v] ELSE [ok |-> FALSE, v |-> 0]

\* str(rating) as stored in the lead record
StrOfRating(rating) ==
    CASE rating.t = "num" -> ToString(rating.v \div 10) \o "." \o ToString(rating.v % 10)
      [] rating.t = "null" -> "None"
      [] OTHER -> "n/a"

\* variant: the two website checks are exchanged
WebsiteRejects_swapped(f, website) ==
    LET website_filter == FilterGet(f, "website") IN
    \/ website_filter = "with" /\ website # ""
    \/ website_filter = "without" /\ website = ""

\* the website checks: TRUE when the candidate is skipped (continue)
WebsiteRejects(f, website) ==
    LET website_filter == FilterGet(f, "website") IN
    \/ website_filter = "with" /\ website = ""
    \/ website_filter = "without" /\ website # ""

\* the email checks: TRUE when the candidate is skipped (continue)
EmailRejects(f, email) ==
    LET email_filter == FilterGet(f, "email") IN
    \/ email_filter = "with" /\ email = ""
    \/ email_filter = "without" /\ email # ""

\* variant: the except branch lets the candidate through (fail-open)
RatingRejects_failOpen(f, rating) ==
    LET rating_filter == FilterGet(f, "rating")
        min_rating == FloatOfFilter(rating_filter)
        place_rating == FloatOfRating(rating)
    IN  IF rating_filter = "no_filter" THEN FALSE
        ELSE IF ~min_rating.ok \/ ~place_rating.ok THEN FALSE
        ELSE IF rating_filter = "5" THEN place_rating.v # 50
        ELSE place_rating.v < min_rating.v

\* variant: the threshold comparison is <= instead of <
RatingRejects_strict(f, rating) ==
    LET rating_filter == FilterGet(f, "rating")
        min_rating == FloatOfFilter(rating_filter)
        place_rating == FloatOfRating(rating)
    IN  IF rating_filter = "no_filter" THEN FALSE
        ELSE IF ~min_rating.ok \/ ~place_rating.ok THEN TRUE
        ELSE IF rating_filter = "5" THEN place_rating.v # 50
        ELSE place_rating.v <= min_rating.v

\* the rating block: TRUE when the candidate is skipped (continue)
RatingRejects(f, rating) ==
    LET rating_filter == FilterGet(f, "rating")
        min_rating == FloatOfFilter(rating_filter)
        place_rating == FloatOfRating(rating)
    IN  IF rating_filter = "no_filter" THEN FALSE
        ELSE IF ~min_rating.ok \/ ~place_rating.ok THEN TRUE
        ELSE IF rating_filter = "5" THEN place_rating.v # 50
        ELSE place_rating.v < min_rating.v

\* variant: the email block is missing
Rejected_noEmail(f, website, email, rating) ==
    \/ WebsiteRejects(f, website)
    \/ RatingRejects(f, rating)

\* the three filter blocks in the order of the code
Rejected(f, website, email, rating) ==
    \/ WebsiteRejects(f, website)
    \/ EmailRejects(f, email)
    \/ RatingRejects(f, rating)

NoData == [results |-> <<>>, next_page_token |-> NoToken]
NoError == [kind |-> "none", status |-> NoStatus, message |-> NoMessage]
DefaultMessage == "An unknown error occurred with the Google Maps API."

\* sequences over S of length 0..n
RECURSIVE SeqsUpTo(_, _)
SeqsUpTo(S, n) ==
    IF n = 0 THEN {<<>>}
    ELSE LET shorter == SeqsUpTo(S, n - 1) IN
         shorter \cup {Append(q, x) : q \in {t \in shorter : Len(t) = n - 1}, x \in S}

(* ------------------------------- Init ---------------------------------- *)
KeywordList == <<"bakery", "cafe", "florist">>
KeywordLists == {SubSeq(KeywordList, 1, n) : n \in 1..MaxKeywords}

\* "52.52,13.405": strings that are searched for a comma are sequences of
\* characters
Coords == <<"5", "2", ".", "5", "2", ",", "1", "3", ".", "4", "0", "5">>

\* scrape_site_emails not called
HarvestIdle ==
    /\ hUrl = [origin |-> "", path |-> ""]
    /\ hWeb = <<>>
    /\ hTarget = 1
    /\ hFound = {}
    /\ hFetched = <<>>
    /\ hParts = <<>>
    /\ hResult = NoValue
    /\ hPc = "idle"

\* no second pair of collect_leads calls
PairIdle ==
    /\ jScript = <<>>
    /\ jPc = <<>>
    /\ jIdx = <<>>
    /\ jSeen = <<>>
    /\ jLeads = <<>>

\* a dict without keys
EmptyDict == [k \in {} |-> NoValue]

\* no webhook request yet
NoHook == [endpoint |-> "none", verified |-> FALSE, type |-> "none", response |-> 0]

\* the bot process is up, the chat has no user_data, nothing was paid
BotIdle ==
    /\ ud = EmptyDict
    /\ shown = {}
    /\ sessions = 0
    /\ paid = {}
    /\ deliveries = <<>>
    /\ lastHook = NoHook
    /\ jobs = <<>>

\* the parts of the program that take no step
NumThreads == 2
Threads == 1..NumThreads

\* setup_application has not been called: the module globals of lines 28-29
\* and 91-93
SetupIdle ==
    /\ sPc = [t \in Threads |-> "out"]
    /\ sCoro = [t \in Threads |-> 0]
    /\ bot_init_lock = 0
    /\ bot_initialized = FALSE
    /\ ptb_app = 0
    /\ apps = <<>>
    /\ coros = <<>>
    /\ thread_starts = 0
    /\ calls = 0

OthersIdle == PairIdle /\ BotIdle /\ SetupIdle /\ envOK = TRUE

\* execute_scraping has resolved the location and calls collect_leads
JobCollecting ==
    /\ location = Coords
    /\ jobPc = "collect"
    /\ geoStatus = NoStatus
    /\ geoResults = <<>>
    /\ geoRequests = 0
    /\ messages = <<"started">>
    /\ files = {}
    /\ written = {}

\* the state at entry of collect_leads, the inputs left open
Entry ==
    /\ JobCollecting
    /\ HarvestIdle
    /\ OthersIdle
    /\ leadsAll = <<>>
    /\ center = Coords
    /\ radius = 1000
    /\ kwIdx = 1
    /\ page = url_nearby(center, radius, keywords[1], NoToken)
    /\ pageNo = 0
    /\ status = NoStatus
    /\ anyOK = FALSE
    /\ data = NoData
    /\ idx = 1
    /\ seen = {}
    /\ leads = <<>>
    /\ detStatus = [p \in Pids |-> NoStatus]
    /\ detFetches = [p \in Pids |-> 0]
    /\ harvests = [p \in Pids |-> 0]
    /\ pc = "search"
    /\ error = NoError
    /\ returned = NoValue
    /\ lastOp = "none"

\* runs over one or several keywords
Init ==
    /\ keywords \in KeywordLists
    /\ filters \in PipelineFilterSpecs
    /\ places \in Catalogues
    /\ Entry

\* runs over one keyword, under every filter specification
InitFilters ==
    /\ keywords = SubSeq(KeywordList, 1, 1)
    /\ filters \in FilterSpecs
    /\ places \in Catalogues
    /\ Entry

(* ------------------------------ actions -------------------------------- *)
\* the job ends with an exception: the caller receives nothing
Raise(e) ==
    /\ pc' = "failed"
    /\ error' = e
    /\ UNCHANGED returned

\* the while-loop over pages has ended (break, or page = None): the for-loop
\* takes the next keyword, or collect_leads returns leads
NextKeyword ==
    IF kwIdx < Len(keywords)
      THEN /\ kwIdx' = kwIdx + 1
           /\ page' = url_nearby(center, radius, keywords[kwIdx + 1], NoToken)
           /\ pageNo' = 0
           /\ pc' = "search"
           /\ UNCHANGED returned
      ELSE /\ pc' = "done"
           /\ returned' = leads
           /\ page' = NoPage
           /\ UNCHANGED <<kwIdx, pageNo>>

\* fetch_json(page) raises: transport error, timeout or HTTP error status
SearchRaises ==
    /\ pc = "search"
    /\ UNCHANGED <<leadsAll, jobVars, hVars, otherVars>>
    /\ lastOp' = "search"
    /\ status' = "EXCEPTION"
    /\ Raise([kind |-> "FetchError", status |-> NoStatus, message |-> NoMessage])
    /\ UNCHANGED <<center, radius, keywords, filters, places, kwIdx, page, pageNo,
                   anyOK, data, idx, seen, leads, detStatus, detFetches, harvests>>

\* variant: a failing status only ends the keyword, as ZERO_RESULTS does
SearchError_skipsKeyword(st, msg) ==
    /\ pc = "search"
    /\ UNCHANGED <<leadsAll, jobVars, hVars, otherVars>>
    /\ lastOp' = "search"
    /\ status' = st
    /\ NextKeyword
    /\ UNCHANGED <<center, radius, keywords, filters, places, anyOK, data, idx,
                   seen, leads, detStatus, detFetches, harvests, error>>

\* the search response has a status other than OK and ZERO_RESULTS
SearchError(st, msg) ==
    /\ pc = "search"
    /\ UNCHANGED <<leadsAll, jobVars, hVars, otherVars>>
    /\ lastOp' = "search"
    /\ status' = st
    /\ Raise([kind |-> "ValueError", status |-> st,
              message |-> IF msg = NoMessage THEN DefaultMessage ELSE msg])
    /\ UNCHANGED <<center, radius, keywords, filters, places, kwIdx, page, pageNo,
                   anyOK, data, idx, seen, leads, detStatus, detFetches, harvests>>

\* variant: ZERO_RESULTS returns from collect_leads instead of breaking
SearchZero_returns ==
    /\ pc = "search"
    /\ UNCHANGED <<leadsAll, jobVars, hVars, otherVars>>
    /\ lastOp' = "search"
    /\ status' = "ZERO_RESULTS"
    /\ pc' = "done"
    /\ returned' = leads
    /\ page' = NoPage
    /\ UNCHANGED <<center, radius, keywords, filters, places, kwIdx, pageNo, anyOK,
                   data, idx, seen, leads, detStatus, detFetches, harvests, error>>

\* the search response has status ZERO_RESULTS: break
SearchZero ==
    /\ pc = "search"
    /\ UNCHANGED <<leadsAll, jobVars, hVars, otherVars>>
    /\ lastOp' = "search"
    /\ status' = "ZERO_RESULTS"
    /\ NextKeyword
    /\ UNCHANGED <<center, radius, keywords, filters, places, anyOK, data, idx,
                   seen, leads, detStatus, detFetches, harvests, error>>

\* the search response has status OK: its results are processed next
SearchOK(results, token) ==
    /\ pc = "search"
    /\ UNCHANGED <<leadsAll, jobVars, hVars, otherVars>>
    /\ token # NoToken => pageNo + 1 < MaxPages
    /\ lastOp' = "search"
    /\ status' = "OK"
    /\ anyOK' = TRUE
    /\ pageNo' = pageNo + 1
    /\ data' = [results |-> results, next_page_token |-> token]
    /\ idx' = 1
    /\ pc' = "results"
    /\ UNCHANGED <<center, radius, keywords, filters, places, kwIdx, page, seen,
                   leads, detStatus, detFetches, harvests, error, returned>>

\* the place the for-loop over data.results is at
CurPid == data.results[idx]
InResults == pc = "results" /\ idx <= Len(data.results)

\* variant: the membership test is lost, every result is treated as new
AlreadySeen_never(pid, s) == FALSE

\* variant: a result is skipped only when it already produced a lead
AlreadySeen_leadsOnly(pid, s) == \E i \in 1..Len(leads) : leads[i].pid = pid

\* "if pid in seen: continue"
AlreadySeen(pid, s) == pid \in s

\* the record appended to leads; pid is kept to name the candidate it derives
\* from (name, address and phone are copied from the details result and play
\* no part in any decision: they are left out)
Lead(pid, website, email, rating) ==
    [pid |-> pid, website |-> website, email |-> email, rating |-> StrOfRating(rating)]

\* a result whose place_id is in seen is skipped without any request
SkipSeen ==
    /\ InResults
    /\ UNCHANGED <<leadsAll, jobVars, hVars, otherVars>>
    /\ AlreadySeen(CurPid, seen)
    /\ idx' = idx + 1
    /\ UNCHANGED <<center, radius, keywords, filters, places, kwIdx, page, pageNo,
                   status, anyOK, data, seen, leads, detStatus, detFetches, harvests, pc,
                   error, returned, lastOp>>

\* fetch_json(url_details(pid)) raises: nothing in collect_leads catches it
DetailsRaises ==
    /\ InResults
    /\ UNCHANGED <<leadsAll, jobVars, hVars, otherVars>>
    /\ ~AlreadySeen(CurPid, seen)
    /\ seen' = seen \cup {CurPid}
    /\ detFetches' = [detFetches EXCEPT ![CurPid] = @ + 1]
    /\ detStatus' = [detStatus EXCEPT ![CurPid] = "EXCEPTION"]
    /\ lastOp' = "details"
    /\ Raise([kind |-> "FetchError", status |-> NoStatus, message |-> NoMessage])
    /\ UNCHANGED <<center, radius, keywords, filters, places, kwIdx, page, pageNo,
                   status, anyOK, data, idx, leads, harvests>>

\* variant: a failing details status ends the page (break, not continue)
DetailsNotOK_endsPage(st) ==
    /\ InResults
    /\ UNCHANGED <<leadsAll, jobVars, hVars, otherVars>>
    /\ ~AlreadySeen(CurPid, seen)
    /\ seen' = seen \cup {CurPid}
    /\ detFetches' = [detFetches EXCEPT ![CurPid] = @ + 1]
    /\ detStatus' = [detStatus EXCEPT ![CurPid] = st]
    /\ lastOp' = "details"
    /\ idx' = Len(data.results) + 1
    /\ UNCHANGED <<center, radius, keywords, filters, places, kwIdx, page, pageNo,
                   status, anyOK, data, leads, harvests, pc, error, returned>>

\* the details response has a status other than OK: continue
DetailsNotOK(st) ==
    /\ InResults
    /\ UNCHANGED <<leadsAll, jobVars, hVars, otherVars>>
    /\ ~AlreadySeen(CurPid, seen)
    /\ seen' = seen \cup {CurPid}
    /\ detFetches' = [detFetches EXCEPT ![CurPid] = @ + 1]
    /\ detStatus' = [detStatus EXCEPT ![CurPid] = st]
    /\ lastOp' = "details"
    /\ idx' = idx + 1
    /\ UNCHANGED <<center, radius, keywords, filters, places, kwIdx, page, pageNo,
                   status, anyOK, data, leads, harvests, pc, error, returned>>

\* variant: the record is inserted at the head of the list
DetailsOK_prepends ==
    /\ InResults
    /\ UNCHANGED <<jobVars, hVars, otherVars>>
    /\ ~AlreadySeen(CurPid, seen)
    /\ LET pid == CurPid
           website == places[pid].website
           email == IF website # "" THEN places[pid].site_email ELSE ""
           rating == RatingGet(places[pid].rating)
       IN  /\ seen' = seen \cup {pid}
           /\ detFetches' = [detFetches EXCEPT ![pid] = @ + 1]
           /\ detStatus' = [detStatus EXCEPT ![pid] = "OK"]
           /\ harvests' = IF website # "" THEN [harvests EXCEPT ![pid] = @ + 1]
                                          ELSE harvests
           /\ leadsAll' = IF Rejected(NoFilters, website, email, rating)
                            THEN leadsAll
                            ELSE Append(leadsAll, Lead(pid, website, email, rating))
           /\ IF Rejected(filters, website, email, rating)
                THEN /\ lastOp' = IF website # "" THEN "harvest" ELSE "details"
                     /\ UNCHANGED leads
                ELSE /\ leads' = <<Lead(pid, website, email, rating)>> \o leads
                     /\ lastOp' = "jitter"
    /\ idx' = idx + 1
    /\ UNCHANGED <<center, radius, keywords, filters, places, kwIdx, page, pageNo,
                   status, anyOK, data, pc, error, returned>>

\* the details response has status OK: harvest, filter, append, jitter
DetailsOK ==
    /\ InResults
    /\ UNCHANGED <<jobVars, hVars, otherVars>>
    /\ ~AlreadySeen(CurPid, seen)
    /\ LET pid == CurPid
           website == places[pid].website
           email == IF website # "" THEN places[pid].site_email ELSE ""
           rating == RatingGet(places[pid].rating)
       IN  /\ seen' = seen \cup {pid}
           /\ detFetches' = [detFetches EXCEPT ![pid] = @ + 1]
           /\ detStatus' = [detStatus EXCEPT ![pid] = "OK"]
           /\ harvests' = IF website # "" THEN [harvests EXCEPT ![pid] = @ + 1]
                                          ELSE harvests
           /\ leadsAll' = IF Rejected(NoFilters, website, email, rating)
                            THEN leadsAll
                            ELSE Append(leadsAll, Lead(pid, website, email, rating))
           /\ IF Rejected(filters, website, email, rating)
                THEN /\ lastOp' = IF website # "" THEN "harvest" ELSE "details"
                     /\ UNCHANGED leads
                ELSE /\ leads' = Append(leads, Lead(pid, website, email, rating))
                     /\ lastOp' = "jitter"
    /\ idx' = idx + 1
    /\ UNCHANGED <<center, radius, keywords, filters, places, kwIdx, page, pageNo,
                   status, anyOK, data, pc, error, returned>>

\* variant: the token is followed without the sleep
EndOfPage_noPacing ==
    /\ pc = "results"
    /\ UNCHANGED <<leadsAll, jobVars, hVars, otherVars>>
    /\ idx > Len(data.results)
    /\ IF data.next_page_token # NoToken
         THEN /\ page' = url_nearby(center, radius, keywords[kwIdx], data.next_page_token)
              /\ pc' = "search"
              /\ UNCHANGED <<kwIdx, pageNo, returned>>
         ELSE NextKeyword
    /\ UNCHANGED <<center, radius, keywords, filters, places, status, anyOK, data,
                   idx, seen, leads, detStatus, detFetches, harvests, error, lastOp>>

\* variant: without a token page keeps its value, the while-loop goes on
EndOfPage_refetches ==
    /\ pc = "results"
    /\ UNCHANGED <<leadsAll, jobVars, hVars, otherVars>>
    /\ idx > Len(data.results)
    /\ lastOp' = IF data.next_page_token # NoToken THEN "pacing" ELSE lastOp
    /\ page' = IF data.next_page_token # NoToken
                 THEN url_nearby(center, radius, keywords[kwIdx], data.next_page_token)
                 ELSE page
    /\ pc' = "search"
    /\ UNCHANGED <<kwIdx, pageNo, returned>>
    /\ UNCHANGED <<center, radius, keywords, filters, places, status, anyOK, data,
                   idx, seen, leads, detStatus, detFetches, harvests, error>>

\* all results of the page are done: follow the token or end the keyword
EndOfPage ==
    /\ pc = "results"
    /\ UNCHANGED <<leadsAll, jobVars, hVars, otherVars>>
    /\ idx > Len(data.results)
    /\ IF data.next_page_token # NoToken
         THEN /\ lastOp' = "pacing"
              /\ page' = url_nearby(center, radius, keywords[kwIdx], data.next_page_token)
              /\ pc' = "search"
              /\ UNCHANGED <<kwIdx, pageNo, returned>>
         ELSE /\ NextKeyword
              /\ UNCHANGED lastOp
    /\ UNCHANGED <<center, radius, keywords, filters, places, status, anyOK, data,
                   idx, seen, leads, detStatus, detFetches, harvests, error>>

Tokens == {"tokenA"}

Next ==
    \/ SearchRaises
    \/ \E st \in BadStatuses, msg \in Messages : SearchError(st, msg)
    \/ SearchZero
    \/ \E results \in SeqsUpTo(Pids, MaxResults), token \in Tokens \cup {NoToken} :
          SearchOK(results, token)
    \/ SkipSeen
    \/ DetailsRaises
    \/ \E st \in DetailBadStatuses : DetailsNotOK(st)
    \/ DetailsOK
    \/ EndOfPage

Spec == Init /\ [][Next]_vars
SpecFilters == InitFilters /\ [][Next]_vars

(* ------------------------- scrape_site_emails -------------------------- *)
\* the tokens EMAIL_PAT can match on the pages explored
EmailTokens == {"Sales@Example.com", "sales@example.com", "info@example.com"}

\* str.lower() on the tokens
Lower(t) == IF t = "Sales@Example.com" THEN "sales@example.com" ELSE t

\* position of a lowercased token in the order sorted() uses
Rank(t) == IF t = "info@example.com" THEN 1 ELSE 2

\* the href values of the anchors: a mailto link or a link to a page
Hrefs == {[scheme |-> "mailto", rest |-> "sales@example.com"],
          [scheme |-> "path", rest |-> "/about"]}

\* what requests.get and BeautifulSoup give for a target: an exception, or
\* the tokens of the visible text and the hrefs of the anchors
FetchOutcomes ==
    {[ok |-> FALSE, text |-> {}, hrefs |-> {}]}
    \cup {[ok |-> TRUE, text |-> t, hrefs |-> h] : t \in SUBSET EmailTokens, h \in SUBSET Hrefs}

\* EMAIL_PAT.findall(blob): the tokens of the text and of the hrefs; in
\* "mailto:sales@example.com" the match starts after the colon
Findall(outcome) ==
    outcome.text \cup {h.rest : h \in {g \in outcome.hrefs : g.scheme = "mailto"}}

\* urllib.parse.urljoin(url, "/contact"): same origin, path /contact
urljoin_contact(url) == [origin |-> url.origin, path |-> "/contact"]

\* the tuple the for-loop runs over
Targets(url) == <<url, urljoin_contact(url)>>

\* sorted(e.lower() for e in found): one entry per member of found
RECURSIVE SortedLower(_)
SortedLower(found) ==
    IF found = {} THEN <<>>
    ELSE LET e == CHOOSE x \in found : \A y \in found : Rank(Lower(x)) <= Rank(Lower(y))
         IN  <<Lower(e)>> \o SortedLower(found \ {e})

\* ";".join(parts)
RECURSIVE Join(_)
Join(parts) ==
    IF parts = <<>> THEN ""
    ELSE IF Len(parts) = 1 THEN parts[1]
    ELSE parts[1] \o ";" \o Join(Tail(parts))

HarvestUrls == {[origin |-> Site, path |-> "/"], [origin |-> Site, path |-> "/contact"]}

\* the local state of collect_leads before it is called
PipeNotCalled ==
    /\ kwIdx = 1
    /\ page = NoPage
    /\ pageNo = 0
    /\ status = NoStatus
    /\ anyOK = FALSE
    /\ data = NoData
    /\ idx = 1
    /\ seen = {}
    /\ leads = <<>>
    /\ leadsAll = <<>>
    /\ detStatus = [p \in Pids |-> NoStatus]
    /\ detFetches = [p \in Pids |-> 0]
    /\ harvests = [p \in Pids |-> 0]
    /\ pc = "idle"
    /\ error = NoError
    /\ returned = NoValue
    /\ lastOp = "none"

\* collect_leads not called
PipeIdle ==
    /\ center = Coords
    /\ radius = 1000
    /\ keywords = SubSeq(KeywordList, 1, 1)
    /\ filters = NoFilters
    /\ places = [p \in Pids |-> Variant(p)]
    /\ PipeNotCalled

\* execute_scraping not called
JobIdle ==
    /\ location = Coords
    /\ jobPc = "idle"
    /\ geoStatus = NoStatus
    /\ geoResults = <<>>
    /\ geoRequests = 0
    /\ messages = <<>>
    /\ files = {}
    /\ written = {}

\* entry of scrape_site_emails, the url and the web left open
InitHarvest ==
    /\ PipeIdle
    /\ JobIdle
    /\ OthersIdle
    /\ hUrl \in HarvestUrls
    /\ hWeb \in [{Targets(hUrl)[i] : i \in 1..2} -> FetchOutcomes]
    /\ hTarget = 1
    /\ hFound = {}
    /\ hFetched = <<>>
    /\ hParts = <<>>
    /\ hResult = NoValue
    /\ hPc = "fetch"

\* the for-loop has ended (break, or both targets done): the return statement
HarvestReturn(found) ==
    /\ hParts' = SortedLower(found)
    /\ hResult' = Join(SortedLower(found))
    /\ hPc' = "returned"

\* the for-loop takes the next target, or ends
HarvestContinue(found) ==
    IF hTarget < 2
      THEN /\ hTarget' = hTarget + 1
           /\ UNCHANGED <<hParts, hResult, hPc>>
      ELSE /\ HarvestReturn(found)
           /\ UNCHANGED hTarget

\* variant: the request is not inside try/except
HarvestFetchFails_raises ==
    /\ hPc = "fetch"
    /\ ~hWeb[Targets(hUrl)[hTarget]].ok
    /\ hFetched' = Append(hFetched, Targets(hUrl)[hTarget])
    /\ hPc' = "raised"
    /\ UNCHANGED <<hUrl, hWeb, hTarget, hFound, hParts, hResult>>
    /\ UNCHANGED <<pipeVars, jobVars, otherVars>>

\* requests.get or the parsing raises: except Exception: pass
HarvestFetchFails ==
    /\ hPc = "fetch"
    /\ ~hWeb[Targets(hUrl)[hTarget]].ok
    /\ hFetched' = Append(hFetched, Targets(hUrl)[hTarget])
    /\ HarvestContinue(hFound)
    /\ UNCHANGED <<hUrl, hWeb, hFound>>
    /\ UNCHANGED <<pipeVars, jobVars, otherVars>>

\* variant: no break, the second target is always fetched
HarvestFetchPage_noBreak ==
    /\ hPc = "fetch"
    /\ hWeb[Targets(hUrl)[hTarget]].ok
    /\ hFetched' = Append(hFetched, Targets(hUrl)[hTarget])
    /\ hFound' = hFound \cup Findall(hWeb[Targets(hUrl)[hTarget]])
    /\ HarvestContinue(hFound')
    /\ UNCHANGED <<hUrl, hWeb>>
    /\ UNCHANGED <<pipeVars, jobVars, otherVars>>

\* the page is fetched and parsed: found.update(...), break when found
HarvestFetchPage ==
    /\ hPc = "fetch"
    /\ hWeb[Targets(hUrl)[hTarget]].ok
    /\ hFetched' = Append(hFetched, Targets(hUrl)[hTarget])
    /\ hFound' = hFound \cup Findall(hWeb[Targets(hUrl)[hTarget]])
    /\ IF hFound' # {}
         THEN HarvestReturn(hFound') /\ UNCHANGED hTarget
         ELSE HarvestContinue(hFound')
    /\ UNCHANGED <<hUrl, hWeb>>
    /\ UNCHANGED <<pipeVars, jobVars, otherVars>>

NextHarvest ==
    \/ HarvestFetchFails
    \/ HarvestFetchPage

SpecHarvest == InitHarvest /\ [][NextHarvest]_vars

(* --------------------------- execute_scraping -------------------------- *)
\* variant: the comma test is absent, every location is geocoded
HasComma_never(loc) == FALSE

\* "," in location
HasComma(loc) == \E i \in 1..Len(loc) : loc[i] = ","

\* user_data["location"]: coordinates, a city name, an address with a comma
Locations ==
    {Coords,
     <<"B", "e", "r", "l", "i", "n">>,
     <<"R", "o", "m", "e", ",", " ", "I", "T">>}

\* the "status" field of a geocode response
GeoStatuses == {"OK", "ZERO_RESULTS", "REQUEST_DENIED"}

\* the "results" field of a geocode response: empty, or one location whose
\* lat and lng are given as str() prints them
GeoResultLists ==
    {<<>>, <<[lat |-> <<"5", "2", ".", "5", "2">>, lng |-> <<"1", "3", ".", "4", "0", "5">>]>>}

\* f"{loc['lat']},{loc['lng']}" of the first result
GeocodeString(results) == results[1].lat \o <<",">> \o results[1].lng

\* execute_scraping is called with the user's inputs
InitJob ==
    /\ location \in Locations
    /\ center = <<>>
    /\ radius = 1000
    /\ keywords = SubSeq(KeywordList, 1, 1)
    /\ filters \in PipelineFilterSpecs
    /\ places \in Catalogues
    /\ PipeNotCalled
    /\ HarvestIdle
    /\ OthersIdle
    /\ jobPc = "start"
    /\ geoStatus = NoStatus
    /\ geoResults = <<>>
    /\ geoRequests = 0
    /\ messages = <<>>
    /\ files = {}
    /\ written = {}

\* the except-branch of execute_scraping: the error message is sent
JobExcept ==
    /\ messages' = Append(messages, "error")
    /\ jobPc' = "end"

\* collect_leads(center, ...) is called and builds its first request
CollectEntry(c) ==
    /\ center' = c
    /\ page' = url_nearby(c, radius, keywords[1], NoToken)
    /\ pc' = "search"
    /\ jobPc' = "collect"

\* the "Payment successful" message is sent and the blocking part starts
JobStart ==
    /\ jobPc = "start"
    /\ messages' = Append(messages, "started")
    /\ jobPc' = "resolve"
    /\ UNCHANGED <<location, geoStatus, geoResults, geoRequests, files, written>>
    /\ UNCHANGED <<pipeVars, hVars, otherVars>>

\* the location has a comma: center = location, no request
ResolvePassThrough ==
    /\ jobPc = "resolve"
    /\ HasComma(location)
    /\ CollectEntry(location)
    /\ UNCHANGED <<location, geoStatus, geoResults, geoRequests, messages, files, written>>
    /\ UNCHANGED <<radius, keywords, filters, places, kwIdx, pageNo, status, anyOK, data,
                   idx, seen, leads, detStatus, detFetches, harvests, error, returned,
                   lastOp, leadsAll>>
    /\ UNCHANGED <<hVars, otherVars>>

\* the geocode request raises: transport error, timeout or HTTP error status
GeocodeRaises ==
    /\ jobPc = "resolve"
    /\ ~HasComma(location)
    /\ geoRequests' = geoRequests + 1
    /\ geoStatus' = "EXCEPTION"
    /\ error' = [kind |-> "FetchError", status |-> NoStatus, message |-> NoMessage]
    /\ JobExcept
    /\ UNCHANGED <<location, geoResults, files, written>>
    /\ UNCHANGED <<center, radius, keywords, filters, places, kwIdx, page, pageNo, status,
                   anyOK, data, idx, seen, leads, detStatus, detFetches, harvests, pc,
                   returned, lastOp, leadsAll>>
    /\ UNCHANGED <<hVars, otherVars>>

\* variant: a rejected geocode request is issued again
GeocodeFails_retries(st, results) ==
    /\ jobPc = "resolve"
    /\ ~HasComma(location)
    /\ st # "OK" \/ results = <<>>
    /\ geoRequests < 3
    /\ geoRequests' = geoRequests + 1
    /\ geoStatus' = st
    /\ geoResults' = results
    /\ UNCHANGED <<location, jobPc, messages, files, written>>
    /\ UNCHANGED <<pipeVars, hVars, otherVars>>

\* the response has a status other than OK or no results: ValueError with
\* the status, caught by the except-branch of execute_scraping
GeocodeFails(st, results) ==
    /\ jobPc = "resolve"
    /\ ~HasComma(location)
    /\ st # "OK" \/ results = <<>>
    /\ geoRequests' = geoRequests + 1
    /\ geoStatus' = st
    /\ geoResults' = results
    /\ error' = [kind |-> "ValueError", status |-> st, message |-> "Geocode failed"]
    /\ JobExcept
    /\ UNCHANGED <<location, files, written>>
    /\ UNCHANGED <<center, radius, keywords, filters, places, kwIdx, page, pageNo, status,
                   anyOK, data, idx, seen, leads, detStatus, detFetches, harvests, pc,
                   returned, lastOp, leadsAll>>
    /\ UNCHANGED <<hVars, otherVars>>

\* the response is OK with a result: center is "lat,lng" of the first one
GeocodeOK(results) ==
    /\ jobPc = "resolve"
    /\ ~HasComma(location)
    /\ results # <<>>
    /\ geoRequests' = geoRequests + 1
    /\ geoStatus' = "OK"
    /\ geoResults' = results
    /\ CollectEntry(GeocodeString(results))
    /\ UNCHANGED <<location, messages, files, written>>
    /\ UNCHANGED <<radius, keywords, filters, places, kwIdx, pageNo, status, anyOK, data,
                   idx, seen, leads, detStatus, detFetches, harvests, error, returned,
                   lastOp, leadsAll>>
    /\ UNCHANGED <<hVars, otherVars>>

\* collect_leads raised: the except-branch of execute_scraping
CollectRaised ==
    /\ jobPc = "collect"
    /\ pc = "failed"
    /\ JobExcept
    /\ UNCHANGED <<location, geoStatus, geoResults, geoRequests, files, written>>
    /\ UNCHANGED <<pipeVars, hVars, otherVars>>

\* collect_leads returned no lead: nothing is written, the "No results
\* found" message is sent
CollectReturnedEmpty ==
    /\ jobPc = "collect"
    /\ pc = "done"
    /\ returned = <<>>
    /\ messages' = Append(messages, "no_results")
    /\ jobPc' = "end"
    /\ UNCHANGED <<location, geoStatus, geoResults, geoRequests, files, written>>
    /\ UNCHANGED <<pipeVars, hVars, otherVars>>

\* collect_leads returned leads: write_csv; SEND_BOTH_FORMATS is False, so
\* no xlsx file
CollectReturnedLeads ==
    /\ jobPc = "collect"
    /\ pc = "done"
    /\ returned # <<>>
    /\ files' = files \cup {"csv"}
    /\ written' = written \cup {"csv"}
    /\ jobPc' = "send"
    /\ UNCHANGED <<location, geoStatus, geoResults, geoRequests, messages>>
    /\ UNCHANGED <<pipeVars, hVars, otherVars>>

\* send_document succeeds; finally os.remove; the closing message is sent
SendDocumentOK ==
    /\ jobPc = "send"
    /\ messages' = messages \o <<"document", "sent">>
    /\ files' = files \ {"csv"}
    /\ jobPc' = "end"
    /\ UNCHANGED <<location, geoStatus, geoResults, geoRequests, written>>
    /\ UNCHANGED <<pipeVars, hVars, otherVars>>

\* variant: os.remove is not in a finally clause
SendDocumentFails_leavesFile ==
    /\ jobPc = "send"
    /\ JobExcept
    /\ UNCHANGED <<location, geoStatus, geoResults, geoRequests, files, written>>
    /\ UNCHANGED <<pipeVars, hVars, otherVars>>

\* send_document raises; finally os.remove; the except-branch
SendDocumentFails ==
    /\ jobPc = "send"
    /\ files' = files \ {"csv"}
    /\ JobExcept
    /\ UNCHANGED <<location, geoStatus, geoResults, geoRequests, written>>
    /\ UNCHANGED <<pipeVars, hVars, otherVars>>

NextJob ==
    \/ JobStart
    \/ ResolvePassThrough
    \/ GeocodeRaises
    \/ \E st \in GeoStatuses, results \in GeoResultLists : GeocodeFails(st, results)
    \/ \E results \in GeoResultLists : GeocodeOK(results)
    \/ Next
    \/ CollectRaised
    \/ CollectReturnedEmpty
    \/ CollectReturnedLeads
    \/ SendDocumentOK
    \/ SendDocumentFails

SpecJob == InitJob /\ [][NextJob]_vars

(* ---------------------- two calls of collect_leads --------------------- *)
Calls == 1..2
MaxScript == 3

\* two calls of collect_leads are about to be made; each will be handed the
\* place_ids of its script by the provider, every details response is OK
\* and no filter is set
InitPair ==
    /\ PipeIdle
    /\ JobIdle
    /\ HarvestIdle
    /\ BotIdle
    /\ SetupIdle
    /\ envOK = TRUE
    /\ jScript \in [Calls -> SeqsUpTo(Pids, MaxScript)]
    /\ jPc = [c \in Calls |-> "idle"]
    /\ jIdx = [c \in Calls |-> 1]
    /\ jSeen = [c \in Calls |-> {}]
    /\ jLeads = [c \in Calls |-> <<>>]

\* entry of collect_leads: leads = [] and seen = set() are locals of the call
PairEnter(c) ==
    /\ jPc[c] = "idle"
    /\ jPc' = [jPc EXCEPT ![c] = "running"]
    /\ jSeen' = [jSeen EXCEPT ![c] = {}]
    /\ jLeads' = [jLeads EXCEPT ![c] = <<>>]
    /\ jIdx' = [jIdx EXCEPT ![c] = 1]
    /\ UNCHANGED jScript
    /\ UNCHANGED <<pipeVars, jobVars, hVars, botVars, setupVars>>

\* variant: seen is one set shared by the calls
PairCandidate_sharedSeen(c) ==
    /\ jPc[c] = "running"
    /\ jIdx[c] <= Len(jScript[c])
    /\ LET pid == jScript[c][jIdx[c]] IN
         IF \E d \in Calls : AlreadySeen(pid, jSeen[d])
           THEN UNCHANGED <<jSeen, jLeads>>
           ELSE /\ jSeen' = [jSeen EXCEPT ![c] = @ \cup {pid}]
                /\ jLeads' = [jLeads EXCEPT ![c] = Append(@, pid)]
    /\ jIdx' = [jIdx EXCEPT ![c] = @ + 1]
    /\ UNCHANGED <<jScript, jPc>>
    /\ UNCHANGED <<pipeVars, jobVars, hVars, botVars, setupVars>>

\* one pass of the loop over results: a seen place_id is passed over, a new
\* one is added to seen and its record appended
PairCandidate(c) ==
    /\ jPc[c] = "running"
    /\ jIdx[c] <= Len(jScript[c])
    /\ LET pid == jScript[c][jIdx[c]] IN
         IF AlreadySeen(pid, jSeen[c])
           THEN UNCHANGED <<jSeen, jLeads>>
           ELSE /\ jSeen' = [jSeen EXCEPT ![c] = @ \cup {pid}]
                /\ jLeads' = [jLeads EXCEPT ![c] = Append(@, pid)]
    /\ jIdx' = [jIdx EXCEPT ![c] = @ + 1]
    /\ UNCHANGED <<jScript, jPc>>
    /\ UNCHANGED <<pipeVars, jobVars, hVars, botVars, setupVars>>

\* the loops have ended: return leads
PairReturn(c) ==
    /\ jPc[c] = "running"
    /\ jIdx[c] > Len(jScript[c])
    /\ jPc' = [jPc EXCEPT ![c] = "returned"]
    /\ UNCHANGED <<jScript, jIdx, jSeen, jLeads>>
    /\ UNCHANGED <<pipeVars, jobVars, hVars, botVars, setupVars>>

NextPair ==
    \/ \E c \in Calls : PairEnter(c)
    \/ \E c \in Calls : PairCandidate(c)
    \/ \E c \in Calls : PairReturn(c)

SpecPair == InitPair /\ [][NextPair]_vars

(* ------------------- bot conversation and webhooks --------------------- *)
MaxKwList == 1
MaxSessions == 1
MaxJobs == 2

Digits == {"0", "1", "2", "3", "4", "5", "6", "7", "8", "9"}

\* str.isdigit(): not empty and every character a digit
IsDigit(t) == t # <<>> /\ \A i \in 1..Len(t) : t[i] \in Digits

DigitValue(ch) ==
    CASE ch = "0" -> 0 [] ch = "1" -> 1 [] ch = "2" -> 2 [] ch = "3" -> 3 [] ch = "4" -> 4
      [] ch = "5" -> 5 [] ch = "6" -> 6 [] ch = "7" -> 7 [] ch = "8" -> 8 [] OTHER -> 9

\* int(user_text) of a string of digits
RECURSIVE IntOf(_)
IntOf(t) ==
    IF t = <<>> THEN 0
    ELSE 10 * IntOf(SubSeq(t, 1, Len(t) - 1)) + DigitValue(t[Len(t)])

\* the texts the user sends at the three steps
LocationTexts == {<<"B", "e", "r", "l", "i", "n">>}
RadiusTexts == {<<"0">>, <<"5", "0", "0">>, <<"a", "b", "c">>, <<"-", "5">>}
KeywordTexts == {"cafe"}

\* the set_filter_<type>_<value> button pressed
FilterButtons == {<<"website", "with">>}

\* dict operations
Has(d, k) == k \in DOMAIN d
Put(d, k, v) == [x \in DOMAIN d \cup {k} |-> IF x = k THEN v ELSE d[x]]
Get(d, k, default) == IF k \in DOMAIN d THEN d[k] ELSE default

\* the dict handle_keywords_done stores
DefaultFilters == [k \in FilterKeys |-> "no_filter"]

\* a button of keyboard k can be pressed: on the current message, on a
\* message that an earlier /start left behind with that keyboard, or by a
\* press that was on its way when the message was edited
Pressable(k) == k \in shown

\* a message is sent or edited with keyboard k
Show(k) == shown' = shown \cup {k}

\* user_data no longer holds the list (kw) or the dict (f) a job was handed
Unalias(kw, f) ==
    jobs' = [i \in DOMAIN jobs |->
                [jobs[i] EXCEPT !.kwAlias = @ /\ ~kw, !.fAlias = @ /\ ~f]]

\* show_filter_menu: reads user_data['location'], ['radius'], ['keywords']
\* (KeyError when one is missing) and edits the menu in
ShowFilterMenu(d) ==
    IF Has(d, "location") /\ Has(d, "radius") /\ Has(d, "keywords")
      THEN Show("menu")
      ELSE UNCHANGED shown

InitBot ==
    /\ PipeIdle
    /\ JobIdle
    /\ HarvestIdle
    /\ PairIdle
    /\ BotIdle
    /\ SetupIdle
    /\ envOK = TRUE

\* /start
Start ==
    /\ ud' = Put(Put(EmptyDict, "bot_msg_id", "msg"), "step", "location")
    /\ Unalias(TRUE, TRUE)
    /\ UNCHANGED <<shown, sessions, paid, deliveries, lastHook>>
    /\ UNCHANGED <<pipeVars, jobVars, hVars, pairVars, setupVars>>

\* handle_message at STEP_LOCATION
MessageLocation(t) ==
    /\ Get(ud, "step", NoValue) = "location"
    /\ ud' = Put(Put(ud, "location", t), "step", "radius")
    /\ UNCHANGED <<shown, sessions, paid, deliveries, lastHook, jobs>>
    /\ UNCHANGED <<pipeVars, jobVars, hVars, pairVars, setupVars>>

\* handle_message at STEP_RADIUS
MessageRadius(t) ==
    /\ Get(ud, "step", NoValue) = "radius"
    /\ IF ~IsDigit(t)
         THEN UNCHANGED <<ud, shown, jobs>>
         ELSE /\ ud' = Put(Put(Put(ud, "radius", IntOf(t)), "step", "keywords"),
                           "keywords", <<>>)
              /\ Show("done")
              /\ Unalias(TRUE, FALSE)
    /\ UNCHANGED <<sessions, paid, deliveries, lastHook>>
    /\ UNCHANGED <<pipeVars, jobVars, hVars, pairVars, setupVars>>

\* handle_message at STEP_KEYWORDS: the list is appended to in place, so a
\* job that holds the same list sees the new keyword
MessageKeyword(t) ==
    /\ Get(ud, "step", NoValue) = "keywords"
    /\ Len(Get(ud, "keywords", <<>>)) < MaxKwList
    /\ ud' = Put(ud, "keywords", Append(Get(ud, "keywords", <<>>), t))
    /\ jobs' = [i \in DOMAIN jobs |->
                  IF jobs[i].kwAlias
                    THEN [jobs[i] EXCEPT !.req = Put(@, "keywords", ud'["keywords"])]
                    ELSE jobs[i]]
    /\ Show("done")
    /\ UNCHANGED <<sessions, paid, deliveries, lastHook>>
    /\ UNCHANGED <<pipeVars, jobVars, hVars, pairVars, setupVars>>

\* handle_keywords_done
KeywordsDone ==
    /\ Pressable("done")
    /\ IF Get(ud, "keywords", <<>>) = <<>>
         THEN UNCHANGED <<ud, shown, jobs>>
         ELSE /\ ud' = Put(Put(ud, "filters", DefaultFilters), "step", "filters")
              /\ Unalias(FALSE, TRUE)
              /\ ShowFilterMenu(ud')
    /\ UNCHANGED <<sessions, paid, deliveries, lastHook>>
    /\ UNCHANGED <<pipeVars, jobVars, hVars, pairVars, setupVars>>

\* handle_filter_selection
FilterSelection ==
    /\ Pressable("menu")
    /\ Show("set")
    /\ UNCHANGED <<ud, sessions, paid, deliveries, lastHook, jobs>>
    /\ UNCHANGED <<pipeVars, jobVars, hVars, pairVars, setupVars>>

\* handle_set_filter: the dict is written in place, so a job that holds the
\* same dict sees the new value
SetFilter(k, v) ==
    /\ Pressable("set")
    /\ ud' = Put(ud, "filters", Put(Get(ud, "filters", EmptyDict), k, v))
    /\ jobs' = [i \in DOMAIN jobs |->
                  IF jobs[i].fAlias
                    THEN [jobs[i] EXCEPT !.req = Put(@, "filters", ud'["filters"])]
                    ELSE jobs[i]]
    /\ ShowFilterMenu(ud')
    /\ UNCHANGED <<sessions, paid, deliveries, lastHook>>
    /\ UNCHANGED <<pipeVars, jobVars, hVars, pairVars, setupVars>>

\* handle_start_scraping_callback: the price and the Pay button
StartScraping ==
    /\ Pressable("menu")
    /\ Show("pay")
    /\ UNCHANGED <<ud, sessions, paid, deliveries, lastHook, jobs>>
    /\ UNCHANGED <<pipeVars, jobVars, hVars, pairVars, setupVars>>

\* handle_stripe_pay_callback: a checkout session is created, its link shown
StripePayOK ==
    /\ Pressable("pay")
    /\ sessions < MaxSessions
    /\ sessions' = sessions + 1
    /\ deliveries' = Append(deliveries, 0)
    /\ Show("url")
    /\ UNCHANGED <<ud, paid, lastHook, jobs>>
    /\ UNCHANGED <<pipeVars, jobVars, hVars, pairVars, setupVars>>

\* the user pays a checkout session on the Stripe page
Pay(s) ==
    /\ Pressable("url")
    /\ s \in (1..sessions) \ paid
    /\ paid' = paid \cup {s}
    /\ UNCHANGED <<ud, shown, sessions, deliveries, lastHook, jobs>>
    /\ UNCHANGED <<pipeVars, jobVars, hVars, pairVars, setupVars>>

\* asyncio.run_coroutine_threadsafe(execute_scraping(bot, chat_id,
\* user_data.copy()), ...): the copy is shallow, the keywords list and the
\* filters dict of the copy are the objects user_data holds
ScheduleJob(s) ==
    jobs' = Append(jobs, [session |-> s, req |-> ud, req0 |-> ud,
                          kwAlias |-> Has(ud, "keywords"),
                          fAlias |-> Has(ud, "filters"),
                          running |-> TRUE])

\* variant: a request that fails verification is processed all the same
StripeInvalid_accepted ==
    /\ sessions > 0
    /\ lastHook' = [endpoint |-> "stripe", verified |-> FALSE,
                    type |-> "checkout.session.completed", response |-> 200]
    /\ Len(jobs) < MaxJobs
    /\ ScheduleJob(1)
    /\ UNCHANGED <<ud, shown, sessions, paid, deliveries>>
    /\ UNCHANGED <<pipeVars, jobVars, hVars, pairVars, setupVars>>

\* stripe_webhook: construct_event raises (invalid payload or signature)
StripeInvalid ==
    /\ sessions > 0
    /\ lastHook' = [endpoint |-> "stripe", verified |-> FALSE,
                    type |-> "checkout.session.completed", response |-> 400]
    /\ UNCHANGED <<ud, shown, sessions, paid, deliveries, jobs>>
    /\ UNCHANGED <<pipeVars, jobVars, hVars, pairVars, setupVars>>

\* stripe_webhook: a verified event of another type
StripeOtherType ==
    /\ sessions > 0
    /\ lastHook' = [endpoint |-> "stripe", verified |-> TRUE,
                    type |-> "payment_intent.created", response |-> 200]
    /\ UNCHANGED <<ud, shown, sessions, paid, deliveries, jobs>>
    /\ UNCHANGED <<pipeVars, jobVars, hVars, pairVars, setupVars>>

\* stripe_webhook: a verified checkout.session.completed event of a paid
\* session; Stripe may deliver the same event more than once
StripeCompleted(s) ==
    /\ s \in paid
    /\ Len(jobs) < MaxJobs
    /\ deliveries' = [deliveries EXCEPT ![s] = @ + 1]
    /\ lastHook' = [endpoint |-> "stripe", verified |-> TRUE,
                    type |-> "checkout.session.completed", response |-> 200]
    /\ IF ud = EmptyDict
         THEN UNCHANGED jobs
         ELSE ScheduleJob(s)
    /\ UNCHANGED <<ud, shown, sessions, paid>>
    /\ UNCHANGED <<pipeVars, jobVars, hVars, pairVars, setupVars>>

\* paypal_webhook: WebhookEvent.verify or the reading of the event raises
PaypalRejected ==
    /\ sessions > 0
    /\ lastHook' = [endpoint |-> "paypal", verified |-> FALSE,
                    type |-> "PAYMENT.SALE.COMPLETED", response |-> 400]
    /\ UNCHANGED <<ud, shown, sessions, paid, deliveries, jobs>>
    /\ UNCHANGED <<pipeVars, jobVars, hVars, pairVars, setupVars>>

\* paypal_webhook: a verified event of another type; the bot offers no
\* PayPal button, so no PayPal sale carries the chat id
PaypalOtherType ==
    /\ sessions > 0
    /\ lastHook' = [endpoint |-> "paypal", verified |-> TRUE,
                    type |-> "PAYMENT.SALE.PENDING", response |-> 200]
    /\ UNCHANGED <<ud, shown, sessions, paid, deliveries, jobs>>
    /\ UNCHANGED <<pipeVars, jobVars, hVars, pairVars, setupVars>>

\* execute_scraping returns: the job drops its request
JobEnds(i) ==
    /\ i \in DOMAIN jobs
    /\ jobs[i].running
    /\ jobs' = [jobs EXCEPT ![i] = [session |-> jobs[i].session, req |-> EmptyDict,
                                    req0 |-> EmptyDict, kwAlias |-> FALSE,
                                    fAlias |-> FALSE, running |-> FALSE]]
    /\ UNCHANGED <<ud, shown, sessions, paid, deliveries, lastHook>>
    /\ UNCHANGED <<pipeVars, jobVars, hVars, pairVars, setupVars>>

\* the handlers that change neither user_data nor the keyboards on display
\* (handle_message without a step, handle_back_to_filters, a Session.create
\* that raises) are stuttering steps
NextBot ==
    \/ Start
    \/ \E t \in LocationTexts : MessageLocation(t)
    \/ \E t \in RadiusTexts : MessageRadius(t)
    \/ \E t \in KeywordTexts : MessageKeyword(t)
    \/ KeywordsDone
    \/ FilterSelection
    \/ \E b \in FilterButtons : SetFilter(b[1], b[2])
    \/ StartScraping
    \/ StripePayOK
    \/ \E s \in 1..MaxSessions : Pay(s)
    \/ StripeInvalid
    \/ StripeOtherType
    \/ \E s \in 1..MaxSessions : StripeCompleted(s)
    \/ PaypalRejected
    \/ PaypalOtherType
    \/ \E i \in 1..MaxJobs : JobEnds(i)

SpecBot == InitBot /\ [][NextBot]_vars

(* ------------------------- setup_application --------------------------- *)
MaxCalls == 3

\* the environment is fixed for the process; nothing else has run
InitSetup ==
    /\ PipeIdle
    /\ JobIdle
    /\ HarvestIdle
    /\ PairIdle
    /\ BotIdle
    /\ SetupIdle
    /\ envOK \in BOOLEAN

\* a thread calls setup_application and arrives at `with bot_init_lock`
SetupCall(t) ==
    /\ sPc[t] = "out"
    /\ calls < MaxCalls
    /\ calls' = calls + 1
    /\ sPc' = [sPc EXCEPT ![t] = "wait"]
    /\ UNCHANGED <<sCoro, bot_init_lock, bot_initialized, ptb_app, apps, coros,
                   thread_starts, envOK>>
    /\ UNCHANGED <<pipeVars, jobVars, hVars, pairVars, botVars>>

\* the thread acquires the lock
SetupAcquire(t) ==
    /\ sPc[t] = "wait"
    /\ bot_init_lock = 0
    /\ bot_init_lock' = t
    /\ sPc' = [sPc EXCEPT ![t] = "check"]
    /\ UNCHANGED <<sCoro, bot_initialized, ptb_app, apps, coros, thread_starts,
                   calls, envOK>>
    /\ UNCHANGED <<pipeVars, jobVars, hVars, pairVars, botVars>>

\* the body up to run_coroutine_threadsafe: return when the flag is set or
\* the environment is incomplete; otherwise build a new Application, bind the
\* global to it, start the loop thread unless it is alive, and schedule
\* setup_bot
SetupBody(t) ==
    /\ sPc[t] = "check"
    /\ bot_init_lock = t
    /\ IF bot_initialized \/ ~envOK
         THEN /\ sPc' = [sPc EXCEPT ![t] = "out"]
              /\ bot_init_lock' = 0
              /\ UNCHANGED <<sCoro, ptb_app, apps, coros, thread_starts>>
         ELSE /\ apps' = Append(apps, "built")
              /\ ptb_app' = Len(apps) + 1
              /\ thread_starts' = IF thread_starts = 0 THEN 1 ELSE thread_starts
              /\ coros' = Append(coros, "initialize")
              /\ sCoro' = [sCoro EXCEPT ![t] = Len(coros) + 1]
              /\ sPc' = [sPc EXCEPT ![t] = "result"]
              /\ UNCHANGED bot_init_lock
    /\ UNCHANGED <<bot_initialized, calls, envOK>>
    /\ UNCHANGED <<pipeVars, jobVars, hVars, pairVars, botVars>>

\* setup_bot: await ptb_app.initialize(), on the application the global
\* names now; it returns at once for an initialized application, or raises
CoroInitialize(c) ==
    /\ c \in DOMAIN coros
    /\ coros[c] = "initialize"
    /\ \/ /\ apps' = [apps EXCEPT ![ptb_app] = IF @ = "built" THEN "initialized" ELSE @]
          /\ coros' = [coros EXCEPT ![c] = "start"]
       \/ /\ coros' = [coros EXCEPT ![c] = "raised"]
          /\ UNCHANGED apps
    /\ UNCHANGED <<sPc, sCoro, bot_init_lock, bot_initialized, ptb_app,
                   thread_starts, calls, envOK>>
    /\ UNCHANGED <<pipeVars, jobVars, hVars, pairVars, botVars>>

\* setup_bot: await ptb_app.start(); RuntimeError for an application that is
\* not initialized or is running already
CoroStart(c) ==
    /\ c \in DOMAIN coros
    /\ coros[c] = "start"
    /\ IF apps[ptb_app] = "initialized"
         THEN /\ apps' = [apps EXCEPT ![ptb_app] = "started"]
              /\ coros' = [coros EXCEPT ![c] = "set_webhook"]
         ELSE /\ coros' = [coros EXCEPT ![c] = "raised"]
              /\ UNCHANGED apps
    /\ UNCHANGED <<sPc, sCoro, bot_init_lock, bot_initialized, ptb_app,
                   thread_starts, calls, envOK>>
    /\ UNCHANGED <<pipeVars, jobVars, hVars, pairVars, botVars>>

\* setup_bot: await ptb_app.bot.set_webhook(...): the request succeeds or raises
CoroSetWebhook(c) ==
    /\ c \in DOMAIN coros
    /\ coros[c] = "set_webhook"
    /\ \E end \in {"done", "raised"} : coros' = [coros EXCEPT ![c] = end]
    /\ UNCHANGED <<sPc, sCoro, bot_init_lock, bot_initialized, ptb_app, apps,
                   thread_starts, calls, envOK>>
    /\ UNCHANGED <<pipeVars, jobVars, hVars, pairVars, botVars>>

\* future.result(20) returns (bot_initialized = True) or re-raises what
\* setup_bot raised (except: return); the with block ends
SetupResult(t) ==
    /\ sPc[t] = "result"
    /\ coros[sCoro[t]] \in {"done", "raised"}
    /\ bot_initialized' = (coros[sCoro[t]] = "done")
    /\ sPc' = [sPc EXCEPT ![t] = "out"]
    /\ bot_init_lock' = 0
    /\ UNCHANGED <<sCoro, ptb_app, apps, coros, thread_starts, calls, envOK>>
    /\ UNCHANGED <<pipeVars, jobVars, hVars, pairVars, botVars>>

\* future.result(20) raises TimeoutError after 20 s: except: return; the
\* coroutine is not cancelled and goes on
SetupTimeout(t) ==
    /\ sPc[t] = "result"
    /\ coros[sCoro[t]] \notin {"done", "raised"}
    /\ sPc' = [sPc EXCEPT ![t] = "out"]
    /\ bot_init_lock' = 0
    /\ UNCHANGED <<sCoro, bot_initialized, ptb_app, apps, coros, thread_starts,
                   calls, envOK>>
    /\ UNCHANGED <<pipeVars, jobVars, hVars, pairVars, botVars>>

NextSetup ==
    \/ \E t \in Threads : SetupCall(t)
    \/ \E t \in Threads : SetupAcquire(t)
    \/ \E t \in Threads : SetupBody(t)
    \/ \E c \in 1..MaxCalls : CoroInitialize(c)
    \/ \E c \in 1..MaxCalls : CoroStart(c)
    \/ \E c \in 1..MaxCalls : CoroSetWebhook(c)
    \/ \E t \in Threads : SetupResult(t)
    \/ \E t \in Threads : SetupTimeout(t)

SpecSetup == InitSetup /\ [][NextSetup]_vars

\* collect_leads is sequential code whose requests all carry the timeout
\* HTTP_TO: a call that has started returns or raises, so a run that can
\* take a step takes one
SpecLive == Init /\ [][Next]_vars /\ WF_vars(Next)

TypeOK ==
    /\ pc \in {"search", "results", "done", "failed"}
    /\ seen \subseteq Pids
    /\ kwIdx \in 1..Len(keywords)

(* ------------------------------ properties ----------------------------- *)
LeadPids(ls) == {ls[i].pid : i \in 1..Len(ls)}
NoDuplicatePid(ls) == \A i, j \in 1..Len(ls) : i # j => ls[i].pid # ls[j].pid

\* C1: no two records of the lead list, nor of the list returned to the
\* caller, derive from the same place_id, whatever keywords and pages the
\* place_id came back under
C1_NoDuplicateLeads ==
    /\ NoDuplicatePid(leads)
    /\ returned # NoValue => NoDuplicatePid(returned)

\* a place that already produced a lead comes back under the second keyword
C1_Witness ==
    /\ InResults
    /\ kwIdx = 2
    /\ CurPid \in LeadPids(leads)
    /\ Len(leads) = NumPids

\* C2: at most one details request is issued per place_id, and a step never
\* issues a details request for a place_id that is already in seen
C2_OneDetailsRequestPerPid ==
    /\ [](\A p \in Pids : detFetches[p] <= 1)
    /\ [][\A p \in seen : detFetches'[p] = detFetches[p]]_vars

\* a place whose details came back with a failing status recurs under the
\* second keyword and is passed over
C2_Witness ==
    /\ pc = "results"
    /\ kwIdx = 2
    /\ idx = 2
    /\ detStatus[data.results[1]] \in DetailBadStatuses
    /\ detFetches[data.results[1]] = 1

\* the three predicates of the filter specification, stated on a record
Threshold(rating_filter) ==
    CASE rating_filter = "1" -> 10 [] rating_filter = "2" -> 20
      [] rating_filter = "3" -> 30 [] rating_filter = "4" -> 40
      [] OTHER -> 50
WebsiteAccepts(f, website) ==
    /\ FilterGet(f, "website") = "with" => website # ""
    /\ FilterGet(f, "website") = "without" => website = ""
EmailAccepts(f, email) ==
    /\ FilterGet(f, "email") = "with" => email # ""
    /\ FilterGet(f, "email") = "without" => email = ""
RatingAccepts(f, raw) ==
    \/ FilterGet(f, "rating") = "no_filter"
    \/ /\ raw.t = "num"
       /\ IF FilterGet(f, "rating") = "5" THEN raw.v = 50
          ELSE raw.v >= Threshold(FilterGet(f, "rating"))

\* C3: every record of the lead list comes from a details response with
\* status OK and satisfies the website, the email and the rating predicate
C3_LeadsPassedDetailsAndFilters ==
    \A i \in 1..Len(leads) :
        /\ detStatus[leads[i].pid] = "OK"
        /\ WebsiteAccepts(filters, leads[i].website)
        /\ EmailAccepts(filters, leads[i].email)
        /\ RatingAccepts(filters, places[leads[i].pid].rating)

\* a record was appended under a specification with three active filters
C3_Witness ==
    /\ Len(leads) >= 1
    /\ FilterGet(filters, "website") = "with"
    /\ FilterGet(filters, "email") = "with"
    /\ FilterGet(filters, "rating") = "5"

\* C4: a search response with a status other than OK and ZERO_RESULTS makes
\* collect_leads fail at once with an error carrying the status and the
\* message; the caller receives no lead, and no request follows the failure
C4_SearchErrorAbortsJob ==
    /\ [](status \in BadStatuses =>
            /\ pc = "failed"
            /\ error.kind = "ValueError"
            /\ error.status = status
            /\ error.message \in (Messages \ {NoMessage}) \cup {DefaultMessage}
            /\ returned = NoValue)
    /\ [][pc = "failed" => UNCHANGED <<pc, returned, detFetches, harvests, lastOp>>]_vars

\* the failing status arrives on a later page of the second keyword, after
\* leads were accumulated
C4_Witness ==
    /\ status \in BadStatuses
    /\ kwIdx = 2
    /\ pageNo = 1
    /\ Len(leads) >= 1
    /\ returned = NoValue

\* C5: a place-details fetch that fails in transport (exception of
\* fetch_json) is non-fatal: the job does not fail because of it
C5_DetailsFetchFailureNonFatal ==
    \A p \in Pids : detStatus[p] = "EXCEPTION" => pc # "failed" /\ error = NoError

\* C6: a details response with a status other than OK produces no lead and
\* runs no harvest for that candidate, and the loop goes on with the next
\* result of the same page, the job state otherwise untouched
C6_DetailsNotOKSkipsCandidate ==
    /\ [](\A p \in Pids : detStatus[p] \in DetailBadStatuses =>
             harvests[p] = 0 /\ p \notin LeadPids(leads))
    /\ [][(\E p \in Pids : detStatus[p] = NoStatus /\ detStatus'[p] \in DetailBadStatuses) =>
             /\ leads' = leads
             /\ harvests' = harvests
             /\ pc' = "results"
             /\ idx' = idx + 1
             /\ <<data, kwIdx, page, error, returned>>' = <<data, kwIdx, page, error, returned>>]_vars

\* the first result of a page failed in details, the second one became a lead
C6_Witness ==
    /\ pc = "results"
    /\ Len(data.results) = 2
    /\ idx = 3
    /\ detStatus[data.results[1]] \in DetailBadStatuses
    /\ Len(leads) = 1
    /\ leads[1].pid = data.results[2]

\* C7: ZERO_RESULTS ends only the keyword it answers: nothing is processed,
\* leads are kept, no error is raised, the next keyword is searched from its
\* first page (or the run returns); a run that never saw an OK response
\* returns the empty list
C7_ZeroResultsEndsKeywordOnly ==
    /\ [](pc = "done" /\ ~anyOK => returned = <<>> /\ error = NoError)
    /\ [][pc = "search" /\ status' = "ZERO_RESULTS" =>
             /\ <<leads, seen, detFetches, harvests>>' = <<leads, seen, detFetches, harvests>>
             /\ error' = NoError
             /\ IF kwIdx < Len(keywords)
                  THEN /\ pc' = "search"
                       /\ kwIdx' = kwIdx + 1
                       /\ page' = url_nearby(center, radius, keywords[kwIdx + 1], NoToken)
                  ELSE /\ pc' = "done"
                       /\ returned' = leads]_vars

\* ZERO_RESULTS answered a later page of the first keyword after leads were
\* collected; the second keyword is about to be searched
C7_Witness ==
    /\ status = "ZERO_RESULTS"
    /\ pc = "search"
    /\ kwIdx = 2
    /\ pageNo = 0
    /\ Len(leads) >= 1

\* the email field of the record of place p
PlaceEmail(p) == IF places[p].website # "" THEN places[p].site_email ELSE ""
\* the places whose details came back with status OK
Detailed == {p \in Pids : detStatus[p] = "OK"}

\* C8: under an active rating filter no record whose rating was absent, null
\* or not a number is in the lead list
C8_RatingFailClosed ==
    FilterGet(filters, "rating") # "no_filter" =>
        \A i \in 1..Len(leads) :
            /\ places[leads[i].pid].rating.t = "num"
            /\ leads[i].rating \notin {"None", "n/a", "0.0"}

\* a place without rating and a place with a null rating were fetched under
\* the weakest rating filter, the other filters off, and produced no lead
C8_Witness ==
    /\ FilterGet(filters, "rating") = "1"
    /\ FilterGet(filters, "website") = "no_filter"
    /\ FilterGet(filters, "email") = "no_filter"
    /\ \E p \in Detailed : places[p].rating.t = "missing" /\ p \notin LeadPids(leads)
    /\ \E p \in Detailed : places[p].rating.t = "null" /\ p \notin LeadPids(leads)

\* C9: filter "5" keeps only rating 5.0; filter N in 1..4 keeps only ratings
\* >= N and keeps every such candidate the other two predicates accept;
\* no_filter never rejects because of the rating
C9_RatingFilter ==
    LET rf == FilterGet(filters, "rating")
        OthersAccept(p) == /\ WebsiteAccepts(filters, places[p].website)
                           /\ EmailAccepts(filters, PlaceEmail(p))
    IN  /\ rf = "5" => \A i \in 1..Len(leads) : leads[i].rating = "5.0"
        /\ rf \in {"1", "2", "3", "4"} =>
              /\ \A i \in 1..Len(leads) :
                    /\ places[leads[i].pid].rating.t = "num"
                    /\ places[leads[i].pid].rating.v >= Threshold(rf)
              /\ \A p \in Detailed :
                    /\ places[p].rating.t = "num"
                    /\ places[p].rating.v >= Threshold(rf)
                    /\ OthersAccept(p)
                    => p \in LeadPids(leads)
        /\ rf = "no_filter" => \A p \in Detailed : OthersAccept(p) => p \in LeadPids(leads)

\* a place rated exactly 3.0 is a lead under filter "3", and a place rated
\* 5.0 was fetched as well
C9_Witness ==
    /\ FilterGet(filters, "rating") = "3"
    /\ \E i \in 1..Len(leads) : leads[i].rating = "3.0"
    /\ \E p \in Detailed : places[p].rating = [t |-> "num", v |-> 50]

\* one page of two distinct results, both with details status OK, one with a
\* website and one without, under {website: with}; the run has returned
ScenarioB ==
    /\ pc = "done"
    /\ Len(keywords) = 1
    /\ pageNo = 1
    /\ FilterGet(filters, "website") = "with"
    /\ FilterGet(filters, "email") = "no_filter"
    /\ FilterGet(filters, "rating") = "no_filter"
    /\ Len(data.results) = 2
    /\ data.results[1] # data.results[2]
    /\ \A k \in 1..2 : detStatus[data.results[k]] = "OK"
    /\ \E k \in 1..2 : places[data.results[k]].website # ""
    /\ \E k \in 1..2 : places[data.results[k]].website = ""

\* C10: under with / without every record has a non-empty / empty website,
\* and likewise for email; under no_filter the field rejects nothing; a
\* fetched candidate is a lead exactly when all three predicates hold; the
\* two-candidate scenario yields exactly the record with a website
C10_WebsiteAndEmailFilters ==
    LET wf == FilterGet(filters, "website")
        ef == FilterGet(filters, "email")
        W(p) == WebsiteAccepts(filters, places[p].website)
        E(p) == EmailAccepts(filters, PlaceEmail(p))
        R(p) == RatingAccepts(filters, places[p].rating)
    IN  /\ wf = "with" => \A i \in 1..Len(leads) : leads[i].website # ""
        /\ wf = "without" => \A i \in 1..Len(leads) : leads[i].website = ""
        /\ ef = "with" => \A i \in 1..Len(leads) : leads[i].email # ""
        /\ ef = "without" => \A i \in 1..Len(leads) : leads[i].email = ""
        /\ wf = "no_filter" => \A p \in Detailed : E(p) /\ R(p) => p \in LeadPids(leads)
        /\ ef = "no_filter" => \A p \in Detailed : W(p) /\ R(p) => p \in LeadPids(leads)
        /\ \A p \in Detailed : p \in LeadPids(leads) <=> (W(p) /\ E(p) /\ R(p))
        /\ ScenarioB => Len(returned) = 1 /\ returned[1].website # ""

C10_Witness == ScenarioB /\ Len(leads) = 1

\* a is b with some elements left out, the order kept
RECURSIVE IsSubseq(_, _)
IsSubseq(a, b) ==
    IF a = <<>> THEN TRUE
    ELSE IF b = <<>> THEN FALSE
    ELSE IF Head(a) = Head(b) THEN IsSubseq(Tail(a), Tail(b))
    ELSE IsSubseq(a, Tail(b))

AllNoFilter(f) == \A k \in FilterKeys : FilterGet(f, k) = "no_filter"

\* C11: on the same provider responses and harvest results, the run with
\* filters omitted holds every record of the run under any filter
\* specification, in the same relative order; an all-no_filter specification
\* gives the same list as omitted filters
C11_NoFilterIsSuperset ==
    /\ IsSubseq(leads, leadsAll)
    /\ AllNoFilter(filters) => leads = leadsAll
    /\ returned # NoValue => IsSubseq(returned, leadsAll)

\* a strict specification dropped the first of two fetched places and kept
\* the second
C11_Witness ==
    /\ pc = "done"
    /\ ~AllNoFilter(filters)
    /\ Len(leadsAll) = 2
    /\ Len(returned) = 1
    /\ returned[1] = leadsAll[2]

\* C12: the results of a page are visited one by one, each once; the page is
\* left only when all were visited; a page without next_page_token is
\* followed by the first page of the next keyword or by the return, never by
\* another request for the same keyword; every run ends (the provider's
\* token chains being at most MaxPages long)
C12_PaginationTerminates ==
    /\ [][pc = "results" /\ pc' = "results" => idx' = idx + 1 /\ data' = data]_vars
    /\ [][pc = "results" /\ pc' \in {"search", "done"} => idx = Len(data.results) + 1]_vars
    /\ [][pc = "results" /\ idx > Len(data.results) /\ data.next_page_token = NoToken =>
            IF kwIdx < Len(keywords)
              THEN /\ pc' = "search"
                   /\ kwIdx' = kwIdx + 1
                   /\ page' = url_nearby(center, radius, keywords[kwIdx + 1], NoToken)
              ELSE pc' = "done" /\ returned' = leads]_vars
    /\ <>(pc \in {"done", "failed"})

\* a full page without token was processed and the second keyword is about
\* to be searched
C12_Witness ==
    /\ pc = "search"
    /\ kwIdx = 2
    /\ pageNo = 0
    /\ status = "OK"
    /\ data.next_page_token = NoToken
    /\ Len(data.results) = MaxResults
    /\ idx = MaxResults + 1

IsTokenUrl(u) == \E q \in u : q[1] = "pagetoken"

\* C13: when a token request is about to be issued the last thing done was
\* the pacing sleep; the sleep is taken only after an OK response with a
\* token whose results were all processed; the token url carries the token
\* and neither location, radius nor keyword
C13_PacingBeforeTokenRequest ==
    /\ [](pc = "search" /\ IsTokenUrl(page) =>
            /\ lastOp = "pacing"
            /\ page = {<<"pagetoken", data.next_page_token>>})
    /\ [][lastOp' = "pacing" =>
            /\ pc = "results"
            /\ status = "OK"
            /\ idx > Len(data.results)
            /\ data.next_page_token # NoToken
            /\ IsTokenUrl(page')]_vars

\* the second page of the second keyword is about to be requested by token
C13_Witness ==
    /\ pc = "search"
    /\ kwIdx = 2
    /\ pageNo = 1
    /\ IsTokenUrl(page)
    /\ lastOp = "pacing"
    /\ Len(data.results) >= 1

\* C14: once the loop body has run for a candidate whose details were
\* fetched, a jitter sleep has been taken: the next request never follows a
\* details fetch (or its harvest) directly
C14_JitterAfterEachDetailsFetch ==
    pc \in {"search", "results", "done"} => lastOp \notin {"details", "harvest"}

(* --------------------------- email harvesting -------------------------- *)
\* the i-th fetch of the harvest raised
FetchFailed(i) == i <= Len(hFetched) /\ ~hWeb[hFetched[i]].ok

\* the emails the i-th fetched page carries, in its text or in mailto links
PageEmails(i) ==
    IF i <= Len(hFetched) /\ hWeb[hFetched[i]].ok
      THEN hWeb[hFetched[i]].text
           \cup {h.rest : h \in {g \in hWeb[hFetched[i]].hrefs : g.scheme = "mailto"}}
      ELSE {}

\* the page the harvest is about to fetch
CurTarget == IF hTarget = 1 THEN hUrl ELSE [origin |-> hUrl.origin, path |-> "/contact"]

ResultIsPage(i) == {hParts[k] : k \in 1..Len(hParts)} = {Lower(t) : t \in PageEmails(i)}

\* C16: the given url is fetched first, then /contact of the same origin; at
\* most two fetches; /contact is fetched only when the first page gave no
\* email or failed; the result holds the emails of the first page that has
\* any, and is empty when none has; a root page without emails and a /contact
\* page with mailto:sales@example.com give "sales@example.com"
C16_FirstYieldingPage ==
    /\ Len(hFetched) <= 2
    /\ Len(hFetched) >= 1 => hFetched[1] = hUrl
    /\ Len(hFetched) = 2 =>
          /\ hFetched[2] = [origin |-> hUrl.origin, path |-> "/contact"]
          /\ PageEmails(1) = {}
    /\ hPc = "returned" =>
          /\ PageEmails(1) # {} => Len(hFetched) = 1 /\ ResultIsPage(1)
          /\ PageEmails(1) = {} => Len(hFetched) = 2 /\ ResultIsPage(2)
          /\ PageEmails(1) = {} /\ PageEmails(2) = {} => hResult = ""
          /\ hResult = Join(hParts)
    /\ ( /\ hPc = "returned"
         /\ hUrl.path = "/"
         /\ hWeb[hUrl] = [ok |-> TRUE, text |-> {}, hrefs |-> {}]
         /\ hWeb[[origin |-> hUrl.origin, path |-> "/contact"]] =
               [ok |-> TRUE, text |-> {},
                hrefs |-> {[scheme |-> "mailto", rest |-> "sales@example.com"]}] )
       => hResult = "sales@example.com"

\* the scenario of the root page without emails and the mailto link on /contact
C16_Witness ==
    /\ hPc = "returned"
    /\ hFetched = <<[origin |-> Site, path |-> "/"], [origin |-> Site, path |-> "/contact"]>>
    /\ PageEmails(1) = {}
    /\ hWeb[hFetched[1]].ok
    /\ hWeb[hFetched[2]].text = {}
    /\ PageEmails(2) = {"sales@example.com"}
    /\ hResult = "sales@example.com"

\* the distinct lowercased addresses of a set of tokens, ascending
RECURSIVE AscendingDistinct(_)
AscendingDistinct(addresses) ==
    IF addresses = {} THEN <<>>
    ELSE LET a == CHOOSE x \in addresses : \A y \in addresses : Rank(x) <= Rank(y)
         IN  <<a>> \o AscendingDistinct(addresses \ {a})

\* C17: the harvested field is the semicolon-joined ascending list of the
\* lowercased addresses, each distinct lowercased address exactly once, also
\* when matched tokens differ only in letter case
C17_NormalizedAndDeduplicated ==
    hPc = "returned" => hResult = Join(AscendingDistinct({Lower(t) : t \in hFound}))

(* --------------------------- location and outcome ---------------------- *)
\* C18: a location with a comma is the center as it stands and no geocode
\* request is issued; the result has a comma and is itself one of the
\* locations resolved here, so resolving it again gives the same string and
\* no request
C18_CommaLocationPassesThrough ==
    (jobPc \notin {"start", "resolve"} /\ \E i \in 1..Len(location) : location[i] = ",") =>
        /\ center = location
        /\ geoRequests = 0
        /\ geoStatus = NoStatus
        /\ \E i \in 1..Len(center) : center[i] = ","
        /\ center \in Locations

\* a job on "52.52,13.405" has delivered its file without any geocode request
C18_Witness ==
    /\ jobPc = "end"
    /\ location = Coords
    /\ center = Coords
    /\ geoRequests = 0
    /\ messages = <<"started", "document", "sent">>

\* a geocode response arrived and is not OK with a result
GeoResponseRejected ==
    /\ geoRequests > 0
    /\ geoStatus # "EXCEPTION"
    /\ geoStatus # "OK" \/ geoResults = <<>>

\* C19: a geocode response with a status other than OK or without results
\* fails the resolution with an error carrying the status; the request is
\* issued once; the job ends with the error message: no search or details
\* request, no harvest, no lead, no file
C19_GeocodeFailureAbortsJob ==
    /\ geoRequests <= 1
    /\ GeoResponseRejected =>
          /\ error.kind = "ValueError"
          /\ error.status = geoStatus
          /\ jobPc = "end"
          /\ messages = <<"started", "error">>
          /\ pc = "idle"
          /\ lastOp = "none"
          /\ \A p \in Pids : detFetches[p] = 0 /\ harvests[p] = 0
          /\ leads = <<>>
          /\ returned = NoValue
          /\ written = {}
          /\ files = {}

\* a city name was geocoded and the provider answered OK with no results
C19_Witness ==
    /\ jobPc = "end"
    /\ ~HasComma(location)
    /\ geoStatus = "OK"
    /\ geoResults = <<>>
    /\ geoRequests = 1
    /\ error.status = "OK"

\* the job has ended and its last message is m
Reported(m) == jobPc = "end" /\ messages # <<>> /\ messages[Len(messages)] = m

\* an error ended the run: the location could not be geocoded, a search
\* page failed, a details request raised, or the file could not be delivered
FatalError ==
    \/ geoRequests > 0 /\ (geoStatus # "OK" \/ geoResults = <<>>)
    \/ status \in BadStatuses \cup {"EXCEPTION"}
    \/ \E p \in Pids : detStatus[p] = "EXCEPTION"
    \/ jobPc = "end" /\ written # {} /\ \A i \in 1..Len(messages) : messages[i] # "document"

IsPrefix(a, b) == Len(a) <= Len(b) /\ SubSeq(b, 1, Len(a)) = a

\* C21: the lead list grows only at its end, by the record of the result
\* being processed; processing moves forward only: keywords in request
\* order, pages of a keyword in the order fetched, results in page order;
\* no record is reordered or removed, and the list returned is that list
C21_DiscoveryOrder ==
    /\ [](pc = "done" => returned = leads)
    /\ [](pc = "search" /\ ~IsTokenUrl(page) => <<"keyword", keywords[kwIdx]>> \in page)
    /\ [][/\ IsPrefix(leads, leads')
          /\ Len(leads') <= Len(leads) + 1
          /\ Len(leads') = Len(leads) + 1 =>
                /\ pc = "results"
                /\ idx <= Len(data.results)
                /\ leads'[Len(leads')].pid = data.results[idx]
          /\ keywords' = keywords
          /\ pc = "results" /\ pc' = "results" => data' = data /\ idx' = idx + 1
          /\ \/ kwIdx' = kwIdx + 1 /\ pageNo' = 0
             \/ kwIdx' = kwIdx /\ pageNo' = pageNo + 1 /\ idx' = 1
             \/ kwIdx' = kwIdx /\ pageNo' = pageNo /\ idx' >= idx]_vars

\* two leads, the first found under the first keyword and the second under
\* the second keyword
C21_Witness ==
    /\ pc = "results"
    /\ kwIdx = 2
    /\ idx = 2
    /\ Len(leads) = 2
    /\ leads[2].pid = data.results[1]
    /\ leads[1].pid # leads[2].pid

(* ------------------------ website and email fields --------------------- *)
\* C29: a record of the lead list without website has no email: the
\* harvester runs only for places with a website; so under the filter
\* specification {website: without, email: with} the lead list is empty
C29_NoWebsiteNoEmail ==
    /\ \A i \in 1..Len(leads) : leads[i].website = "" => leads[i].email = ""
    /\ \A i \in 1..Len(leadsAll) : leadsAll[i].website = "" => leadsAll[i].email = ""
    /\ \A p \in Pids : harvests[p] > 0 => places[p].website # ""
    /\ (FilterGet(filters, "website") = "without" /\ FilterGet(filters, "email") = "with")
         => leads = <<>>

\* under {website: without, email: with} a place without website and a
\* place with website and email were both evaluated, and no lead came out
C29_Witness ==
    /\ pc = "done"
    /\ FilterGet(filters, "website") = "without"
    /\ FilterGet(filters, "email") = "with"
    /\ FilterGet(filters, "rating") = "no_filter"
    /\ \E p \in Detailed : places[p].website = ""
    /\ \E p \in Detailed : places[p].website # "" /\ places[p].site_email # ""
    /\ Len(leadsAll) = 2
    /\ leads = <<>>

RECURSIVE AloneOutput(_, _)
AloneOutput(script, sofar) ==
    IF script = <<>> THEN sofar
    ELSE AloneOutput(Tail(script),
                     IF \E i \in 1..Len(sofar) : sofar[i] = Head(script)
                       THEN sofar ELSE Append(sofar, Head(script)))

\* C25: for every interleaving of two calls, each call returns what it
\* returns when run alone; a step of one call leaves the seen set and the
\* lead list of the other as they are, and a place_id the other call (or an
\* earlier one) has seen is still taken up
C25_JobsShareNoState ==
    /\ [](\A c \in Calls : jPc[c] = "returned" => jLeads[c] = AloneOutput(jScript[c], <<>>))
    /\ [][\A c \in Calls :
            /\ jIdx'[c] = jIdx[c] /\ jPc'[c] = jPc[c] =>
                  jSeen'[c] = jSeen[c] /\ jLeads'[c] = jLeads[c]
            /\ ( /\ jIdx'[c] = jIdx[c] + 1
                 /\ jScript[c][jIdx[c]] \notin jSeen[c] )
               => jLeads'[c] = Append(jLeads[c], jScript[c][jIdx[c]])]_vars

\* both calls came upon the same place_id and both returned it
C25_Witness ==
    /\ \A c \in Calls : jPc[c] = "returned" /\ Len(jScript[c]) = MaxScript
    /\ jSeen[1] \cap jSeen[2] # {}
    /\ jLeads[1] # jLeads[2]
    /\ Len(jLeads[1]) = 2


(* ------------------------------ C22 ------------------------------------ *)
RequestFields == {"location", "radius", "keywords", "filters"}

\* the request execute_scraping reads from the dict it was handed
RequestOf(d) == [k \in RequestFields \cap DOMAIN d |-> d[k]]

Complete(d) ==
    /\ Has(d, "location")
    /\ Has(d, "radius")
    /\ Has(d, "keywords")
    /\ d["keywords"] # <<>>

\* C22: every job that was started was handed a request with a location, a
\* radius and a non-empty keyword list, whatever the conversation did between
\* the creation of the payment link and the confirmation of the payment
C22_StartedRequestComplete ==
    \A i \in DOMAIN jobs : jobs[i].running => Complete(jobs[i].req0)

(* ------------------------------ C23 ------------------------------------ *)
JobStarted == Len(jobs') > Len(jobs)

\* C23: a job is started only in a step that processes a verified
\* checkout.session.completed event of a paid session; a request that fails
\* verification, a verified event of another type and every conversation
\* event leave the jobs as they are
C23_OnlyVerifiedConfirmationStarts ==
    [][JobStarted =>
          /\ lastHook'.verified
          /\ lastHook'.type = "checkout.session.completed"
          /\ lastHook'.response = 200
          /\ \E s \in paid : deliveries'[s] = deliveries[s] + 1]_vars

\* a job is running, and the request that arrived last failed verification
\* and was answered 400 without starting another
C23_Witness ==
    /\ Len(jobs) = 1
    /\ jobs[1].running
    /\ lastHook.endpoint = "stripe"
    /\ ~lastHook.verified
    /\ lastHook.response = 400

(* ------------------------------ C24 ------------------------------------ *)
\* C24: the request a running job uses (location, radius, keywords, filters)
\* is the one it was started with
C24_RunningRequestImmutable ==
    \A i \in DOMAIN jobs :
        jobs[i].running => RequestOf(jobs[i].req) = RequestOf(jobs[i].req0)

(* ------------------------------ C26 ------------------------------------ *)
JobsOf(s) == {i \in DOMAIN jobs : jobs[i].session = s}

\* C26: a checkout session causes at most one collection run, however often
\* its confirmation event is delivered
C26_OneJobPerConfirmation ==
    \A s \in 1..sessions : Cardinality(JobsOf(s)) <= 1

(* ------------------------------ C27 ------------------------------------ *)
\* C27: the radius the radius step stored, and the radius of every request
\* handed to a job, is an integer greater than zero
C27_RadiusPositive ==
    /\ Has(ud, "radius") => ud["radius"] \in Nat \ {0}
    /\ \A i \in DOMAIN jobs :
          (jobs[i].running /\ Has(jobs[i].req0, "radius"))
              => jobs[i].req0["radius"] \in Nat \ {0}


(* ------------------------------ C28 ------------------------------------ *)
AppsStarted == {a \in DOMAIN apps : apps[a] = "started"}

\* a call of setup_application returns at the check of the flag
ReturnsAtCheck == \E t \in Threads : sPc[t] = "check" /\ sPc'[t] = "out"

\* C28: at most one Application has been initialized and started, the loop
\* thread has been started at most once, and a call that finds the flag set
\* changes nothing
C28_SetupIdempotent ==
    /\ [](Cardinality(AppsStarted) <= 1 /\ thread_starts <= 1)
    /\ [][(bot_initialized /\ ReturnsAtCheck)
             => UNCHANGED <<bot_initialized, ptb_app, apps, coros, thread_starts>>]_vars

====
